---- MODULE Spec2Model ----
(***************************************************************************)
(* dctl: a process supervisor daemon (src/src/main.rs).                    *)
(*                                                                         *)
(* The daemon loads a fixed table of services (ServiceQueue), starts a     *)
(* guardian thread for each, then serves one request per connection on a   *)
(* unix socket, each connection on its own thread.  Every step that reads  *)
(* or writes shared state (the atomics flag and pid, the mutex-protected   *)
(* thread handle, the OS process table) is one action.                     *)
(***************************************************************************)
EXTENDS Integers, Sequences, FiniteSets, TLC

\* ---------------------------------------------------------------- bounds
NumHandlers == 1        \* connection threads that may be in flight at once
MaxGuardians == 2       \* guardian threads of one service alive at once
MaxPid == 2             \* process ids the OS hands out: 1..MaxPid
MaxElapsed == 2         \* measured run times, in seconds: 0..MaxElapsed

\* ------------------------------------------------------ program constants
RESTART_SEC == 1
None == 0               \* Option::None of the thread handle; pid 0 = no process
Free == -1              \* the mutex is not held
Main == 0               \* the main thread, among the threads 0..NumHandlers

Services == {"svc"}                 \* the names the config file defines
Handlers == 1..NumHandlers
Threads == 0..NumHandlers
Slots == 1..MaxGuardians
Pids == 1..MaxPid
SEP == "#"

VARIABLES
    queue,      \* ServiceQueue.queue: the names registered
    status,     \* ServiceStatus per service: flag, pid, thread, and the mutex's holder
    guardian,   \* guardian threads: position, locals, and the child process owned
    conn,       \* main and connection threads: position, message, pending calls, response
    daemon      \* the daemon process: "up", "exited" (exit(0)), "killed" (SIGTERM)

vars == <<queue, status, guardian, conn, daemon>>

\* ----------------------------------------------------------- the messages
\* A message is a sequence of tokens; SEP is the '#' character.
Messages ==
    { <<"daemon", SEP, "stop">>, <<"daemon", SEP, "status">>,
      <<"status", SEP, "svc">>, <<"status", SEP, "nosvc">>,
      <<"start", SEP, "svc">>,
      <<"stop", SEP, "svc">>, <<"stop", SEP, "nosvc">>,
      <<"restart", SEP, "svc">>,
      <<"frobnicate", SEP, "x">>, <<"frobnicate", "/", "x">> }

\* str::split('#'): the pieces between separators (one piece when there is none).
RECURSIVE Split(_)
Split(s) ==
    IF \A i \in 1..Len(s) : s[i] # SEP
    THEN <<s>>
    ELSE LET i == CHOOSE k \in 1..Len(s) :
                     s[k] = SEP /\ \A j \in 1..(k - 1) : s[j] # SEP
         IN <<SubSeq(s, 1, i - 1)>> \o Split(SubSeq(s, i + 1, Len(s)))

\* A piece equals the literal w.
Is(piece, w) == piece = <<w>>

\* HashMap::get(s_name): the piece names a registered service.
Registered(piece, q) == Len(piece) = 1 /\ piece[1] \in q

\* ------------------------------------------------------------ the records
NoResp == [kind |-> "none", lines |-> <<>>, text |-> ""]
TextResp(t) == [kind |-> "text", lines |-> <<>>, text |-> t]
Call(o, n, named) == [op |-> o, svc |-> n, named |-> named]

\* since: the spawns the guardian has made since a Service::stop that found
\* its handle returned (-1: no such stop yet); kept for observation only.
NoGuardian ==
    [pc |-> "idle", cpid |-> None, cst |-> "none", termed |-> FALSE,
     result |-> FALSE, elapsed |-> 0, fl |-> FALSE, since |-> -1]

\* ServiceStatus::new
NewStatus == [flag |-> TRUE, pid |-> None, thread |-> None, lock |-> Free]

Init ==
    /\ queue = Services
    /\ status = [n \in Services |-> NewStatus]
    /\ guardian = [n \in Services |-> [g \in Slots |-> NoGuardian]]
    /\ conn = [t \in Threads |->
                 [pc |-> IF t = Main THEN "boot" ELSE "idle",
                  msg |-> <<>>, ops |-> <<>>, resp |-> NoResp,
                  sig |-> {}, tmp |-> FALSE]]
    /\ daemon = "up"

\* ------------------------------------------------------------- processes
\* The children not yet reaped (running, or exited and not waited for).
Children(n) == { g \in Slots : guardian[n][g].cst # "none" }
LivePids == UNION { { guardian[n][g].cpid : g \in Children(n) } : n \in Services }
FreePids == Pids \ LivePids

\* kill(pid, SIGTERM) as the OS carries it out: pid 0 names the caller's whole
\* process group (the daemon and the children it spawned); another pid names
\* the process that has it now, if any.
Signalled(p, c) == c.cst = "run" /\ (p = 0 \/ c.cpid = p)
Deliver(gs, p) ==
    [n \in Services |-> [g \in Slots |->
        IF Signalled(p, gs[n][g]) THEN [gs[n][g] EXCEPT !.termed = TRUE]
        ELSE gs[n][g]]]
DaemonAfterKill(p) == IF p = 0 THEN "killed" ELSE daemon

\* A child process exits on its own or after a signal, with any status.
ChildExit(n, g) ==
    /\ guardian[n][g].cst = "run"
    /\ \E st \in {"ok", "fail"} : guardian' = [guardian EXCEPT ![n][g].cst = st]
    /\ UNCHANGED <<queue, status, conn, daemon>>

\* ------------------------------------------------------------- guardian
\* Faulty variants of the branch: the exit status, the run time, or the whole
\* condition is left out.
RespawnOnAnyExit(result, fl, elapsed) == fl /\ elapsed > RESTART_SEC
RespawnAtOnce(result, fl, elapsed) == ~result /\ fl
NeverRespawn(result, fl, elapsed) == FALSE
RespawnDespiteStop(result, fl, elapsed) == ~result /\ elapsed > RESTART_SEC

\* The loop's branch: respawn (continue) or retire.
ShouldRespawn(result, fl, elapsed) == ~result /\ fl /\ elapsed > RESTART_SEC

\* Command::spawn().expect(..): a child with a fresh pid, or a panic that ends
\* the thread with the handle still in place.
GSpawn(n, g) ==
    /\ daemon = "up"
    /\ guardian[n][g].pc = "spawn"
    /\ \/ \E p \in FreePids :
            guardian' = [guardian EXCEPT ![n][g] =
                [@ EXCEPT !.pc = "store", !.cpid = p, !.cst = "run", !.termed = FALSE,
                          !.since = IF @ \in {0, 1} THEN @ + 1 ELSE @]]
       \/ guardian' = [guardian EXCEPT ![n][g].pc = "panicked"]
    /\ UNCHANGED <<queue, status, conn, daemon>>

\* status.pid.store(command.id()); start_time = Instant::now()
GStorePid(n, g) ==
    /\ daemon = "up"
    /\ guardian[n][g].pc = "store"
    /\ status' = [status EXCEPT ![n].pid = guardian[n][g].cpid]
    /\ guardian' = [guardian EXCEPT ![n][g].pc = "wait"]
    /\ UNCHANGED <<queue, conn, daemon>>

\* command.wait().unwrap().success(): returns once the child has exited, and reaps it.
GWait(n, g) ==
    /\ daemon = "up"
    /\ guardian[n][g].pc = "wait"
    /\ guardian[n][g].cst \in {"ok", "fail"}
    /\ guardian' = [guardian EXCEPT ![n][g] =
            [@ EXCEPT !.pc = "clear", !.result = (guardian[n][g].cst = "ok"),
                      !.cpid = None, !.cst = "none", !.termed = FALSE]]
    /\ UNCHANGED <<queue, status, conn, daemon>>

\* Faulty variant: the pid is left in the entry after the wait.
KeepPid(p) == p

\* The pid the guardian stores once wait has returned.
ClearedPid(p) == 0

\* status.pid.store(0)
GClearPid(n, g) ==
    /\ daemon = "up"
    /\ guardian[n][g].pc = "clear"
    /\ status' = [status EXCEPT ![n].pid = ClearedPid(@)]
    /\ guardian' = [guardian EXCEPT ![n][g].pc = "measure"]
    /\ UNCHANGED <<queue, conn, daemon>>

\* start_time.elapsed() and status.flag.load()
GMeasure(n, g) ==
    /\ daemon = "up"
    /\ guardian[n][g].pc = "measure"
    /\ \E e \in 0..MaxElapsed :
          guardian' = [guardian EXCEPT ![n][g] =
              [@ EXCEPT !.pc = "decide", !.elapsed = e, !.fl = status[n].flag]]
    /\ UNCHANGED <<queue, status, conn, daemon>>

\* if !result && flag && time_result { continue } else { .. }; the flag read
\* is a local of the round that ends here
GDecide(n, g) ==
    /\ daemon = "up"
    /\ guardian[n][g].pc = "decide"
    /\ LET me == guardian[n][g] IN
          guardian' = [guardian EXCEPT ![n][g] = [@ EXCEPT !.fl = FALSE, !.pc =
              IF ShouldRespawn(me.result, me.fl, me.elapsed) THEN "spawn" ELSE "unregister"]]
    /\ UNCHANGED <<queue, status, conn, daemon>>

\* *status.thread.lock().unwrap() = None
GUnregister(n, g) ==
    /\ daemon = "up"
    /\ guardian[n][g].pc = "unregister"
    /\ status[n].lock = Free
    /\ status' = [status EXCEPT ![n].thread = None]
    /\ guardian' = [guardian EXCEPT ![n][g] = [@ EXCEPT !.pc = "unflag", !.since = -1]]
    /\ UNCHANGED <<queue, conn, daemon>>

\* status.flag.store(false); break
GUnflag(n, g) ==
    /\ daemon = "up"
    /\ guardian[n][g].pc = "unflag"
    /\ status' = [status EXCEPT ![n].flag = FALSE]
    /\ guardian' = [guardian EXCEPT ![n][g].pc = "done"]
    /\ UNCHANGED <<queue, conn, daemon>>

\* ------------------------------------------------- main and the handlers
Head1(t) == Head(conn[t].ops)
AtCall(t, o) == conn[t].pc = "call" /\ conn[t].ops # <<>> /\ Head1(t).op = o

\* Some order of a set, as HashMap iteration gives.
Orders(S) == { f \in [1..Cardinality(S) -> S] : \A i, j \in 1..Cardinality(S) : i # j => f[i] # f[j] }
Calls(o, order) == [i \in 1..Len(order) |-> Call(o, order[i], TRUE)]

\* main: queue.start() before the accept loop
Boot ==
    /\ daemon = "up"
    /\ conn[Main].pc = "boot"
    /\ \E order \in Orders(queue) :
          conn' = [conn EXCEPT ![Main] = [@ EXCEPT !.pc = "call", !.ops = Calls("start", order)]]
    /\ UNCHANGED <<queue, status, guardian, daemon>>

\* listener.incoming(), thread::spawn, read_to_string: a connection with its message
Accept(t) ==
    /\ daemon = "up"
    /\ t \in Handlers
    /\ conn[Main].pc = "accept"
    /\ conn[t].pc \in {"idle", "closed", "panicked"}
    /\ \E m \in Messages :
          conn' = [conn EXCEPT ![t] =
              [pc |-> "dispatch", msg |-> m, ops |-> <<>>, resp |-> NoResp,
               sig |-> {}, tmp |-> FALSE]]
    /\ UNCHANGED <<queue, status, guardian, daemon>>

\* Faulty variant: daemon#stop leaves the services alone.
PlanNoCascade(verb, arg, order) ==
    LET n == arg[1] IN
    CASE Is(verb, "daemon") -> Calls("get", order)
      [] Is(verb, "status") -> <<Call("get", n, FALSE)>>
      [] Is(verb, "restart") -> <<Call("stop", n, TRUE), Call("start", n, TRUE), Call("get", n, TRUE)>>
      [] Is(verb, "start") -> <<Call("start", n, TRUE), Call("get", n, TRUE)>>
      [] Is(verb, "stop") -> <<Call("stop", n, TRUE), Call("get", n, TRUE)>>
      [] OTHER -> <<>>

\* The calls a request makes, in order: match (message[0], message[1]).
Plan(verb, arg, order) ==
    LET n == arg[1] IN
    CASE Is(verb, "daemon") /\ Is(arg, "stop") -> Calls("stop", order) \o Calls("get", order)
      [] Is(verb, "daemon") /\ Is(arg, "status") -> Calls("get", order)
      [] Is(verb, "status") -> <<Call("get", n, FALSE)>>
      [] Is(verb, "restart") -> <<Call("stop", n, TRUE), Call("start", n, TRUE), Call("get", n, TRUE)>>
      [] Is(verb, "start") -> <<Call("start", n, TRUE), Call("get", n, TRUE)>>
      [] Is(verb, "stop") -> <<Call("stop", n, TRUE), Call("get", n, TRUE)>>
      [] OTHER -> <<>>

WholeQueue(verb, arg) == Is(verb, "daemon") /\ (Is(arg, "stop") \/ Is(arg, "status"))
Named(verb) == Is(verb, "status") \/ Is(verb, "restart") \/ Is(verb, "start") \/ Is(verb, "stop")

\* message.split('#'), message[0], message[1], the match and queue.get(s_name).unwrap()
Dispatch(t) ==
    /\ daemon = "up"
    /\ conn[t].pc = "dispatch"
    /\ LET parts == Split(conn[t].msg) IN
       IF Len(parts) < 2
       THEN conn' = [conn EXCEPT ![t].pc = "panicked"]
       ELSE LET verb == parts[1]
                arg == parts[2]
            IN IF WholeQueue(verb, arg)
               THEN \E order \in Orders(queue) :
                       conn' = [conn EXCEPT ![t] = [@ EXCEPT !.pc = "call",
                                   !.ops = Plan(verb, arg, order),
                                   !.resp = [NoResp EXCEPT !.kind = "status"]]]
               ELSE IF Named(verb)
               THEN IF Registered(arg, queue)
                    THEN conn' = [conn EXCEPT ![t] = [@ EXCEPT !.pc = "call",
                                   !.ops = Plan(verb, arg, <<>>),
                                   !.resp = [NoResp EXCEPT !.kind = "status"]]]
                    ELSE conn' = [conn EXCEPT ![t].pc = "panicked"]
               ELSE conn' = [conn EXCEPT ![t] = [@ EXCEPT !.pc = "call",
                                   !.resp = TextResp("[option] invalid parameter")]]
    /\ UNCHANGED <<queue, status, guardian, daemon>>

\* Faulty variant: the guard is not dropped on return.
KeepLock(t) == t

\* The mutex once the MutexGuard is dropped at the end of start / stop.
Unlocked(t) == Free

Return(t) == [conn EXCEPT ![t] = [@ EXCEPT !.pc = "call", !.ops = Tail(@)]]

\* Faulty variant: a guardian is launched whether or not one is registered.
LaunchAlways(thread) == TRUE

\* if thread.is_none()
StartLaunches(thread) == thread = None

\* Service::start: lock; when a handle is present nothing is done
StartLock(t) ==
    /\ daemon = "up"
    /\ AtCall(t, "start")
    /\ LET n == Head1(t).svc IN
       /\ status[n].lock = Free
       /\ IF StartLaunches(status[n].thread)
          THEN /\ \E g \in Slots : guardian[n][g].pc \in {"idle", "done"}
               /\ status' = [status EXCEPT ![n].lock = t]
               /\ conn' = [conn EXCEPT ![t].pc = "start_flag"]
          ELSE /\ status' = status
               /\ conn' = Return(t)
    /\ UNCHANGED <<queue, guardian, daemon>>

\* self.status.flag.store(true)
StartFlag(t) ==
    /\ daemon = "up"
    /\ conn[t].pc = "start_flag"
    /\ status' = [status EXCEPT ![Head1(t).svc].flag = TRUE]
    /\ conn' = [conn EXCEPT ![t].pc = "start_spawn"]
    /\ UNCHANGED <<queue, guardian, daemon>>

\* *thread = Some(thread::spawn(..)); the lock is released on return
StartSpawn(t) ==
    /\ daemon = "up"
    /\ conn[t].pc = "start_spawn"
    /\ LET n == Head1(t).svc
           g == CHOOSE k \in Slots : guardian[n][k].pc \in {"idle", "done"}
                                     /\ \A j \in 1..(k - 1) : guardian[n][j].pc \notin {"idle", "done"}
       IN /\ guardian' = [guardian EXCEPT ![n][g] = [NoGuardian EXCEPT !.pc = "spawn"]]
          /\ status' = [status EXCEPT ![n] = [@ EXCEPT !.thread = g, !.lock = Unlocked(t)]]
    /\ conn' = Return(t)
    /\ UNCHANGED <<queue, daemon>>

\* if thread.is_some()
StopActs(thread) == thread # None

\* Faulty variant: stop drops the entry.
QueueWithout(q, n) == q \ {n}

\* The registry after Service::stop: the entry stays.
QueueAfterStop(q, n) == q

\* Service::stop: lock; when no handle is present nothing is done
StopLock(t) ==
    /\ daemon = "up"
    /\ AtCall(t, "stop")
    /\ LET n == Head1(t).svc IN
       /\ status[n].lock = Free
       /\ IF StopActs(status[n].thread)
          THEN /\ status' = [status EXCEPT ![n].lock = t]
               /\ conn' = [conn EXCEPT ![t].pc = "stop_flag"]
               /\ queue' = queue
          ELSE /\ status' = status
               /\ conn' = Return(t)
               /\ queue' = QueueAfterStop(queue, n)
    /\ UNCHANGED <<guardian, daemon>>

\* self.status.flag.store(false)
StopFlag(t) ==
    /\ daemon = "up"
    /\ conn[t].pc = "stop_flag"
    /\ status' = [status EXCEPT ![Head1(t).svc].flag = FALSE]
    /\ conn' = [conn EXCEPT ![t].pc = "stop_kill"]
    /\ UNCHANGED <<queue, guardian, daemon>>

\* The pid handed to kill_: whatever the entry holds.
KillArg(p) == p

\* kill_(self.status.pid.load(), 15)
StopKill(t) ==
    /\ daemon = "up"
    /\ conn[t].pc = "stop_kill"
    /\ LET p == KillArg(status[Head1(t).svc].pid) IN
       /\ conn' = [conn EXCEPT ![t] = [@ EXCEPT !.pc = "stop_pid", !.sig = @ \cup {p}]]
       /\ guardian' = Deliver(guardian, p)
       /\ daemon' = DaemonAfterKill(p)
    /\ UNCHANGED <<queue, status>>

\* self.status.pid.store(0); the lock is released on return
StopPid(t) ==
    /\ daemon = "up"
    /\ conn[t].pc = "stop_pid"
    /\ LET n == Head1(t).svc
           g == status[n].thread
       IN /\ status' = [status EXCEPT ![n] = [@ EXCEPT !.pid = 0, !.lock = Unlocked(t)]]
          /\ queue' = QueueAfterStop(queue, n)
          /\ guardian' = IF g # None /\ guardian[n][g].since = -1
                         THEN [guardian EXCEPT ![n][g].since = 0]
                         ELSE guardian
    /\ conn' = Return(t)
    /\ UNCHANGED daemon

\* ServiceStatus::get: self.flag.load()
GetFlag(t) ==
    /\ daemon = "up"
    /\ AtCall(t, "get")
    /\ conn' = [conn EXCEPT ![t] = [@ EXCEPT !.pc = "get_pid", !.tmp = status[Head1(t).svc].flag]]
    /\ UNCHANGED <<queue, status, guardian, daemon>>

\* ServiceStatus::get: self.pid.load(); Display: "[flag] pid" and, where given, the name
GetPid(t) ==
    /\ daemon = "up"
    /\ conn[t].pc = "get_pid"
    /\ LET c == Head1(t)
           line == [flag |-> conn[t].tmp, pid |-> status[c.svc].pid,
                    name |-> IF c.named THEN c.svc ELSE ""]
       IN conn' = [conn EXCEPT ![t] = [@ EXCEPT !.pc = "call", !.ops = Tail(@),
                       !.tmp = FALSE, !.resp.lines = Append(@, line)]]
    /\ UNCHANGED <<queue, status, guardian, daemon>>

IsDaemonStop(m) == LET parts == Split(m) IN
    Len(parts) >= 2 /\ Is(parts[1], "daemon") /\ Is(parts[2], "stop")

\* main: queue.start() has returned; the accept loop begins
BootDone ==
    /\ daemon = "up"
    /\ conn[Main].pc = "call" /\ conn[Main].ops = <<>>
    /\ conn' = [conn EXCEPT ![Main].pc = "accept"]
    /\ UNCHANGED <<queue, status, guardian, daemon>>

\* stream.write_all(..); then shutdown, or std::process::exit(0) for daemon#stop
Respond(t) ==
    /\ daemon = "up"
    /\ t \in Handlers
    /\ conn[t].pc = "call" /\ conn[t].ops = <<>>
    /\ conn' = [conn EXCEPT ![t].pc = "closed"]
    /\ daemon' = IF IsDaemonStop(conn[t].msg) THEN "exited" ELSE daemon
    /\ UNCHANGED <<queue, status, guardian>>

Next ==
    \/ Boot
    \/ BootDone
    \/ \E t \in Handlers : Accept(t) \/ Dispatch(t) \/ Respond(t)
    \/ \E t \in Threads : StartLock(t) \/ StartFlag(t) \/ StartSpawn(t)
    \/ \E t \in Threads : StopLock(t) \/ StopFlag(t) \/ StopKill(t) \/ StopPid(t)
    \/ \E t \in Threads : GetFlag(t) \/ GetPid(t)
    \/ \E n \in Services, g \in Slots :
          \/ GSpawn(n, g) \/ GStorePid(n, g) \/ GWait(n, g) \/ GClearPid(n, g)
          \/ GMeasure(n, g) \/ GDecide(n, g) \/ GUnregister(n, g) \/ GUnflag(n, g)
          \/ ChildExit(n, g)

Spec == Init /\ [][Next]_vars

\* ================================================================ claims
\* A call of Service::start / Service::stop by thread t returns in this step.
StartReturns(t) ==
    /\ (AtCall(t, "start") \/ conn[t].pc = "start_spawn")
    /\ conn'[t].ops = Tail(conn[t].ops)
StopReturns(t) ==
    /\ (AtCall(t, "stop") \/ conn[t].pc = "stop_pid")
    /\ conn'[t].ops = Tail(conn[t].ops)

\* No guardian of n is left running and no start of n is under way.
Retired(n) ==
    /\ \A g \in Slots : guardian[n][g].pc \in {"idle", "done"}
    /\ \A t \in Threads : conn[t].pc \in {"start_flag", "start_spawn"} => Head1(t).svc # n

Verb(m) == Split(m)[1]
Arg(m) == Split(m)[2]

\* C1: Stop never calls kill_ with pid 0, in any interleaving with Start and
\* the guardian.
C1_StopNeverSignalsPidZero == \A t \in Threads : 0 \notin conn[t].sig

\* C2: a guardian that saw its process exit with status 0 never spawns or owns
\* a process again, and once it has retired with no later guardian launched
\* the entry reads flag = false, pid = 0.
C2_CleanExitNeverRespawns ==
    \A n \in Services : \A g \in Slots :
        guardian[n][g].result =>
            /\ guardian[n][g].pc \notin {"spawn", "store", "wait"}
            /\ guardian[n][g].cst = "none"
            /\ (guardian[n][g].pc = "done" /\ Retired(n)) =>
                  (~status[n].flag /\ status[n].pid = 0 /\ status[n].thread = None)

C2_Witness ==
    \E n \in Services : \E g \in Slots :
        /\ guardian[n][g].result /\ guardian[n][g].pc = "done" /\ Retired(n)
        /\ ~status[n].flag /\ status[n].pid = 0

\* C3: a guardian whose process exited non-zero after a measured run shorter
\* than RESTART_SEC does not respawn: its next step is to retire, and once it
\* has retired with no later guardian launched the entry reads flag = false,
\* pid = 0.
EarlyFailure(c) == ~c.result /\ c.elapsed < RESTART_SEC
C3_EarlyFailureRetires ==
    [][\A n \in Services : \A g \in Slots :
          /\ (guardian[n][g].pc = "decide" /\ EarlyFailure(guardian[n][g]))
                => guardian'[n][g].pc \in {"decide", "unregister"}
          /\ (guardian'[n][g].pc = "done" /\ EarlyFailure(guardian'[n][g]) /\ Retired(n)')
                => (~status'[n].flag /\ status'[n].pid = 0 /\ status'[n].thread = None)
      ]_vars

C3_Witness ==
    \E n \in Services : \E g \in Slots :
        /\ guardian[n][g].pc = "done" /\ EarlyFailure(guardian[n][g]) /\ Retired(n)
        /\ ~status[n].flag /\ status[n].pid = 0

\* C4 (as claimed): after a non-zero exit of a run of at least RESTART_SEC,
\* with the flag read as true, the guardian's next step is a new spawn.
C4_RespawnAtThreshold ==
    [][\A n \in Services : \A g \in Slots :
          (/\ guardian[n][g].pc = "decide"
           /\ ~guardian[n][g].result /\ guardian[n][g].fl
           /\ guardian[n][g].elapsed >= RESTART_SEC
           /\ guardian'[n][g].pc # "decide")
              => guardian'[n][g].pc = "spawn"
      ]_vars

\* C4 (amended): after a non-zero exit of a run longer than RESTART_SEC, with
\* the flag read as true, the guardian's next step is a new spawn attempt; a
\* successful spawn creates a process whose pid the guardian then stores in
\* the entry.
C4_RespawnPastThreshold ==
    [][\A n \in Services : \A g \in Slots :
          /\ (/\ guardian[n][g].pc = "decide"
              /\ ~guardian[n][g].result /\ guardian[n][g].fl
              /\ guardian[n][g].elapsed > RESTART_SEC
              /\ guardian'[n][g].pc # "decide")
                => guardian'[n][g].pc = "spawn"
          /\ (guardian[n][g].pc = "spawn" /\ guardian'[n][g].pc = "store")
                => (guardian'[n][g].cst = "run" /\ guardian'[n][g].cpid \in Pids)
          /\ (guardian[n][g].pc = "store" /\ guardian'[n][g].pc = "wait")
                => status'[n].pid = guardian[n][g].cpid
      ]_vars

\* A guardian in its second or later round (its last round ended in a failure
\* after a run longer than RESTART_SEC) has stored the pid of its new process.
C4_Witness ==
    \E n \in Services : \E g \in Slots :
        /\ guardian[n][g].pc = "wait" /\ guardian[n][g].cst = "run"
        /\ ~guardian[n][g].result
        /\ guardian[n][g].elapsed > RESTART_SEC
        /\ status[n].pid = guardian[n][g].cpid /\ status[n].pid # 0

C6_AtMostOneChild == \A n \in Services : Cardinality(Children(n)) <= 1

\* A new guardian owns a process while its predecessor is still retiring.
C6_Witness ==
    \E n \in Services : \E g, h \in Slots :
        /\ g # h
        /\ guardian[n][g].cst = "run"
        /\ guardian[n][h].pc = "unflag"

Listed(r) == { r.lines[i].name : i \in 1..Len(r.lines) }
NotFoundRequest(m) ==
    /\ Len(Split(m)) >= 2
    /\ (Is(Verb(m), "stop") \/ Is(Verb(m), "status"))
    /\ ~Registered(Arg(m), queue)
C8_NotFoundAnswered ==
    \A t \in Handlers :
        (conn[t].pc \notin {"idle", "dispatch"} /\ NotFoundRequest(conn[t].msg))
            => /\ conn[t].pc = "closed"
               /\ conn[t].resp.kind = "text"
               /\ daemon = "up"

\* C9: when any call of Service::start returns, the entry's flag is true.
C9_ActiveAfterStart ==
    [][\A t \in Threads : StartReturns(t) => status'[Head1(t).svc].flag]_vars

\* C10: when any call of Service::start returns, a guardian is registered for
\* n that is in its loop (it has spawned or will spawn) and the flag is true.
InLoop(c) == c.pc \in {"spawn", "store", "wait", "clear", "measure", "decide"}
C10_GuardianAfterStart ==
    [][\A t \in Threads :
          StartReturns(t) =>
              LET n == Head1(t).svc IN
              /\ status'[n].thread # None
              /\ InLoop(guardian'[n][status'[n].thread])
              /\ status'[n].flag
      ]_vars

\* Thread t, serving the request m, takes a step.
Steps(t) == conn'[t] # conn[t]
Serving(t) == conn[t].pc \notin {"idle", "dispatch", "closed", "panicked"}

C12_OnlyDaemonStopTerminates ==
    daemon # "up" =>
        \E t \in Handlers : IsDaemonStop(conn[t].msg) /\ conn[t].pc \notin {"idle", "dispatch"}

\* C13: a request without separator or with an unknown verb is answered with
\* the text "Invalid parameter" and the connection closes normally.
Malformed(m) == Len(Split(m)) < 2
UnknownVerb(m) ==
    /\ Len(Split(m)) >= 2
    /\ ~WholeQueue(Verb(m), Arg(m))
    /\ ~Named(Verb(m))
C13_InvalidParameterAnswered ==
    \A t \in Handlers :
        (conn[t].pc \notin {"idle", "dispatch"} /\ (Malformed(conn[t].msg) \/ UnknownVerb(conn[t].msg)))
            => /\ conn[t].pc \in {"call", "closed"}
               /\ conn[t].resp = TextResp("Invalid parameter")
               /\ conn[t].ops = <<>>

\* C14: a guardian that read the flag as false after a wait does not respawn,
\* and a guardian spawns at most one process after a Service::stop that found
\* its handle has returned; after such a process it retires.
C14_AtMostOneRespawnAfterStop ==
    [][\A n \in Services : \A g \in Slots :
          /\ guardian'[n][g].since <= 1
          /\ (guardian[n][g].pc = "decide" /\ ~guardian[n][g].fl /\ guardian'[n][g].pc # "decide")
                => guardian'[n][g].pc = "unregister"
          /\ (guardian[n][g].pc = "decide" /\ guardian[n][g].since = 1 /\ guardian'[n][g].pc # "decide")
                => guardian'[n][g].pc = "unregister"
      ]_vars

\* A stop that found the guardian has returned; the guardian has since seen its
\* process end after a long run with failure, read the flag, and is on its way out.
C14_Witness ==
    \E n \in Services : \E g \in Slots :
        /\ guardian[n][g].since = 0 /\ guardian[n][g].pc = "unregister"
        /\ ~guardian[n][g].result /\ guardian[n][g].elapsed > RESTART_SEC
        /\ ~status[n].flag /\ status[n].thread = g

\* C15: at most one guardian thread of a service can still write the entry.
Writers(n) == { g \in Slots : guardian[n][g].pc \notin {"idle", "done", "panicked"} }
C15_OneWriter == \A n \in Services : Cardinality(Writers(n)) <= 1

C17_SpawnFailureRetires ==
    \A n \in Services : \A g \in Slots :
        guardian[n][g].pc # "panicked"

\* C20: the flag goes from true to false only by a stop, or by a retiring
\* guardian while no start has taken the entry since it cleared the handle.
C20_FlagStaysUnderNewGuardian ==
    [][\A n \in Services :
          (status[n].flag /\ ~status'[n].flag) =>
              \/ \E t \in Threads : conn[t].pc = "stop_flag" /\ conn'[t].pc = "stop_kill"
              \/ /\ status[n].thread = None
                 /\ status[n].lock = Free
      ]_vars

\* ------------------------------------------------------------- fairness
\* Every thread of the running daemon keeps being scheduled; a thread blocked
\* in Mutex::lock gets the mutex if it is released again and again; a process
\* that was sent SIGTERM exits.  Nothing is assumed about new connections or
\* about processes that were not signalled.
TermExit(n, g) == guardian[n][g].termed /\ ChildExit(n, g)
Run(t) ==
    \/ StartFlag(t) \/ StartSpawn(t)
    \/ StopFlag(t) \/ StopKill(t) \/ StopPid(t)
    \/ GetFlag(t) \/ GetPid(t)
    \/ (t = Main /\ (Boot \/ BootDone))
    \/ (t \in Handlers /\ (Dispatch(t) \/ Respond(t)))
Acquire(t) == StartLock(t) \/ StopLock(t)
GRun(n, g) ==
    \/ GSpawn(n, g) \/ GStorePid(n, g) \/ GWait(n, g) \/ GClearPid(n, g)
    \/ GMeasure(n, g) \/ GDecide(n, g) \/ GUnflag(n, g)
Fairness ==
    /\ \A t \in Threads : WF_vars(Run(t)) /\ SF_vars(Acquire(t))
    /\ \A n \in Services : \A g \in Slots :
          /\ WF_vars(GRun(n, g)) /\ SF_vars(GUnregister(n, g))
          /\ WF_vars(TermExit(n, g))

FairSpec == Spec /\ Fairness

\* C18: the mutex of an entry is held only by a thread inside Service::start or
\* Service::stop for that entry, and while the daemon runs every thread that
\* waits for it in start or stop gets it, and every retiring guardian gets it
\* and clears the handle.
Holding(t, n) ==
    /\ conn[t].pc \in {"start_flag", "start_spawn", "stop_flag", "stop_kill", "stop_pid"}
    /\ Head1(t).svc = n
Waiting(t) == AtCall(t, "start") \/ AtCall(t, "stop")
StopReturned(t, n) ==
    /\ conn[t].msg = <<"stop", SEP, n>>
    /\ conn[t].pc = "call" /\ conn[t].ops # <<>> /\ Head1(t).op = "get"
    /\ conn[t].sig # {}
Quiet(t) ==
    \A u \in Handlers \ {t} : conn[u].pc \in {"idle", "closed", "panicked"}
Stopped(n) ==
    /\ Children(n) = {}
    /\ status[n].thread = None /\ ~status[n].flag /\ status[n].pid = 0
C19_StopEventuallyStops ==
    \A t \in Handlers : \A n \in Services :
        (StopReturned(t, n) /\ Quiet(t)) ~>
            (Stopped(n) \/ ~Quiet(t) \/ conn[t].pc = "dispatch")

\* The stop has returned while the guardian, having respawned after the flag
\* was read, owns a process that the stop signalled.
C19_Witness ==
    \E t \in Handlers : \E n \in Services : \E g \in Slots :
        /\ StopReturned(t, n) /\ Quiet(t)
        /\ guardian[n][g].pc = "wait" /\ guardian[n][g].cst = "run" /\ guardian[n][g].termed
        /\ ~guardian[n][g].result /\ guardian[n][g].elapsed > RESTART_SEC

====
